---- MODULE Spec2Model ----
(***************************************************************************)
(* A model of vizbot.core.trainer.Trainer (src/vizbot/core/trainer.py):    *)
(* the main thread registers preprocesses; every worker thread builds its  *)
(* environment with create_env and then calls run_episode on it, all on    *)
(* one Trainer and concurrently.                                           *)
(*                                                                         *)
(* Granularity.  Every access to a field that another thread may write     *)
(* without holding the same lock is a step of its own: the read of         *)
(* _running in line 85, the read and the write of `self._timestep += 1`    *)
(* (line 116, made under the environment's lock only), the append to       *)
(* _scores in line 92 (made under no lock), the reads of _timestep in      *)
(* lines 95 and 97.  Code that touches only thread-local data, or fields   *)
(* written under the session lock alone, is merged into the neighbouring   *)
(* step.                                                                   *)
(***************************************************************************)
EXTENDS Integers, Sequences, FiniteSets, TLC

\* ---------------------------------------------------------------- bounds
MaxSteps == 2      \* environment steps before the environment ends an episode
MaxEpisodes == 2   \* run_episode calls that get past the running check

Workers == {"w1", "w2"}
NoThread == "none"
\* The preprocess classes the main thread registers, in this order
PreprocessArgs == <<"grayscale", "downsample">>
Rewards == {1}
None == 0
NoBuffer == [cap |-> 0, len |-> 0]

\* The constructor's arguments (lines 17-18): a run that stores its results
\* and records every third episode, and a dry run that leaves epoch_size and
\* videos at their defaults
Configs ==
    { [directory |-> TRUE, timesteps |-> 2, epoch_size |-> 1, videos |-> 3,
       experience |-> TRUE, experience_maxlen |-> 1],
      [directory |-> FALSE, timesteps |-> 1, epoch_size |-> None, videos |-> 0,
       experience |-> FALSE, experience_maxlen |-> 1] }

\* The scenario timesteps=100, epoch_size=50, episodes of 30 steps, in tenths:
\* the second episode crosses the first epoch boundary and the fourth crosses
\* both the second boundary and the training limit, as 60 > 50 and 120 > 100 do
ScenarioConfig ==
    [directory |-> TRUE, timesteps |-> 10, epoch_size |-> 5, videos |-> 0,
     experience |-> FALSE, experience_maxlen |-> 1,
     episode_len |-> 3, episodes |-> 4]

\* An environment object: <<k, lvl>> is the object that the k-th create_env
\* call holds after lvl preprocesses wrapped the GymEnv; <<k, 0>> is the bare
\* GymEnv.  Every object carries its own lock.
EnvIds == (1..Cardinality(Workers)) \X (0..Len(PreprocessArgs))
NoEnv == <<0, 0>>

VARIABLES
    directory, timesteps, epoch_size, videos,          \* constructor arguments
    experience, experience_maxlen,
    episodeLen, episodeCap,                            \* the environment, the callers
    envs, preprocesses, scores, epoch, episode, timestep, running, lock,
    created, envLock, closed,                          \* the environment objects
    reports, persisted, stores, addResult, saved,      \* what the program emits
    pc, wenv, ep, score, steps, tsRead, closeIdx, outcome, vflag,   \* per thread
    agentActive, buf,
    allocated, stepSum, regionDone, stops, errors      \* history

config == <<directory, timesteps, epoch_size, videos, experience, experience_maxlen,
            episodeLen, episodeCap>>
fields == <<envs, preprocesses, scores, epoch, episode, timestep, running, lock>>
world == <<created, envLock, closed>>
output == <<reports, persisted, stores, addResult, saved>>
locals == <<pc, wenv, ep, score, steps, tsRead, closeIdx, outcome, vflag,
            agentActive, buf>>
history == <<allocated, stepSum, regionDone, stops, errors>>
vars == <<config, fields, world, output, locals, history>>

\* ------------------------------------------------------------- helpers
\* line 41: epoch_size or timesteps // 100
DefaultEpochSize(arg, ts) == IF arg # None THEN arg ELSE ts \div 100

RECURSIVE SumSeq(_)
SumSeq(s) == IF s = <<>> THEN 0 ELSE Head(s) + SumSeq(Tail(s))

\* Python's s[-n:]; s[-0:] is the whole list
LastN(s, n) ==
    IF n = 0 \/ n >= Len(s) THEN s ELSE SubSeq(s, Len(s) - n + 1, Len(s))

\* NewExperience with room for one transition more than experience_maxlen
NewExperience_OffByOne == [cap |-> experience_maxlen + 1, len |-> 0]

\* lines 101-102: Experience(self._experience_maxlen)
NewExperience == [cap |-> experience_maxlen, len |-> 0]

\* Experience.append (vizbot.utility): a buffer at its capacity accepts no
\* further transition
ExperienceAppend(b) == IF b.len < b.cap THEN [b EXCEPT !.len = @ + 1] ELSE b

\* lines 101, 112, 120: if self._directory and self._experience
Recording == directory /\ experience

\* lines 144-147: the env_episode argument is ignored, the shared counter is read
VideoCallback == IF videos = 0 THEN FALSE ELSE episode % videos = 0

\* ---------------------------------------------------------------- Init
\* lines 36-54: the Trainer built with the arguments c; pre is the list of
\* preprocesses registered before the threads start, len the length of the
\* environment's episodes (None: the environment ends an episode when it
\* likes, after MaxSteps steps at the latest), cap the number of episodes
\* the callers ask for
Setup(c, pre, len, cap) ==
    /\ directory = c.directory
    /\ timesteps = c.timesteps
    /\ epoch_size = DefaultEpochSize(c.epoch_size, c.timesteps)
    /\ videos = c.videos
    /\ experience = c.experience
    /\ experience_maxlen = c.experience_maxlen
    /\ episodeLen = len
    /\ episodeCap = cap
    /\ envs = <<>>
    /\ preprocesses = pre
    /\ scores = <<>>
    /\ epoch = 0
    /\ episode = 0
    /\ timestep = 0
    /\ running = TRUE
    /\ lock = NoThread
    /\ created = 0
    /\ envLock = [e \in EnvIds |-> NoThread]
    /\ closed = [e \in EnvIds |-> 0]
    /\ reports = <<>>
    /\ persisted = <<>>
    /\ stores = 0
    /\ addResult = "none"
    /\ saved = {}
    /\ pc = [w \in Workers |-> "new"]
    /\ wenv = [w \in Workers |-> NoEnv]
    /\ ep = [w \in Workers |-> 0]
    /\ score = [w \in Workers |-> 0]
    /\ steps = [w \in Workers |-> 0]
    /\ tsRead = [w \in Workers |-> 0]
    /\ closeIdx = [w \in Workers |-> 0]
    /\ outcome = [w \in Workers |-> "none"]
    /\ vflag = [w \in Workers |-> FALSE]
    /\ agentActive = [w \in Workers |-> FALSE]
    /\ buf = [w \in Workers |-> NoBuffer]
    /\ allocated = <<>>
    /\ stepSum = 0
    /\ regionDone = 0
    /\ stops = 0
    /\ errors = 0

Init == \E c \in Configs : Setup(c, <<>>, None, MaxEpisodes)

\* ----------------------------------------------------------- set-up
\* lines 72-75, called by the main thread
AddPreprocess(cls) ==
    /\ Len(preprocesses) < Len(PreprocessArgs)
    /\ cls = PreprocessArgs[Len(preprocesses) + 1]
    /\ IF envs # <<>>
       THEN /\ addResult' = "RuntimeError"
            /\ UNCHANGED preprocesses
       ELSE /\ addResult' = "ok"
            /\ preprocesses' = Append(preprocesses, cls)
    /\ UNCHANGED <<config, envs, scores, epoch, episode, timestep, running, lock,
                   world, reports, persisted, stores, saved, locals, history>>

\* lines 77-82: each worker builds the environment it will run its episodes
\* on.  The append to _envs is in the body of the loop over _preprocesses.
CreateEnv(w) ==
    /\ pc[w] = "new"
    /\ LET k == created + 1
           n == Len(preprocesses)
       IN /\ created' = k
          /\ envs' = envs \o [i \in 1..n |-> <<k, i>>]
          /\ wenv' = [wenv EXCEPT ![w] = <<k, n>>]
    /\ pc' = [pc EXCEPT ![w] = "idle"]
    /\ UNCHANGED <<config, preprocesses, scores, epoch, episode, timestep, running,
                   lock, envLock, closed, output, ep, score, steps, tsRead, closeIdx,
                   outcome, vflag, agentActive, buf, history>>

\* ------------------------------------------------ run_episode, per thread
\* RunEpisodeCheck without lines 85-86: the call goes on whatever _running is
RunEpisodeCheck_Unchecked(w) ==
    /\ pc[w] = "idle"
    /\ episode + Cardinality({v \in Workers : pc[v] = "alloc"}) < episodeCap
    /\ pc' = [pc EXCEPT ![w] = "alloc"]
    /\ outcome' = [outcome EXCEPT ![w] = "none"]
    /\ UNCHANGED <<config, fields, world, output, wenv, ep, score, steps, tsRead,
                   closeIdx, vflag, agentActive, buf, history>>

\* lines 84-86: the call and its running check
RunEpisodeCheck(w) ==
    /\ pc[w] = "idle"
    /\ IF ~running
       THEN /\ outcome' = [outcome EXCEPT ![w] = "StopTraining"]
            /\ UNCHANGED pc
       ELSE /\ episode + Cardinality({v \in Workers : pc[v] = "alloc"}) < episodeCap
            /\ pc' = [pc EXCEPT ![w] = "alloc"]
            /\ outcome' = [outcome EXCEPT ![w] = "none"]
    /\ UNCHANGED <<config, fields, world, output, wenv, ep, score, steps, tsRead,
                   closeIdx, vflag, agentActive, buf, history>>

\* AllocEpisode with lines 88 and 89 exchanged: the id is read after the increment
AllocEpisode_IncrementFirst(w) ==
    /\ pc[w] = "alloc"
    /\ lock = NoThread
    /\ ep' = [ep EXCEPT ![w] = episode + 1]
    /\ episode' = episode + 1
    /\ allocated' = Append(allocated, episode + 1)
    /\ pc' = [pc EXCEPT ![w] = "envlock"]
    /\ UNCHANGED <<config, envs, preprocesses, scores, epoch, timestep, running, lock,
                   world, output, wenv, score, steps, tsRead, closeIdx, outcome,
                   vflag, agentActive, buf,
                   stepSum, regionDone, stops, errors>>

\* lines 87-89: with self._lock: episode = self._episode; self._episode += 1
AllocEpisode(w) ==
    /\ pc[w] = "alloc"
    /\ lock = NoThread
    /\ ep' = [ep EXCEPT ![w] = episode]
    /\ episode' = episode + 1
    /\ allocated' = Append(allocated, episode)
    /\ pc' = [pc EXCEPT ![w] = "envlock"]
    /\ UNCHANGED <<config, envs, preprocesses, scores, epoch, timestep, running, lock,
                   world, output, wenv, score, steps, tsRead, closeIdx, outcome,
                   vflag, agentActive, buf,
                   stepSum, regionDone, stops, errors>>

\* lines 90 and 101-104: with env.lock; the experience buffer is created
\* when recording; score = 0; agent.start()
StartEpisode(w) ==
    /\ pc[w] = "envlock"
    /\ envLock[wenv[w]] = NoThread
    /\ envLock' = [envLock EXCEPT ![wenv[w]] = w]
    /\ buf' = [buf EXCEPT ![w] = IF Recording THEN NewExperience ELSE NoBuffer]
    /\ score' = [score EXCEPT ![w] = 0]
    /\ steps' = [steps EXCEPT ![w] = 0]
    /\ agentActive' = [agentActive EXCEPT ![w] = TRUE]
    /\ pc' = [pc EXCEPT ![w] = "reset"]
    /\ UNCHANGED <<config, fields, created, closed, output, wenv, ep, tsRead, closeIdx,
                   outcome, vflag, history>>

\* line 106: env.reset(); the environment asks the video callback it was built with
EnvReset(w) ==
    /\ pc[w] = "reset"
    /\ vflag' = [vflag EXCEPT ![w] = VideoCallback]
    /\ pc' = [pc EXCEPT ![w] = "step"]
    /\ UNCHANGED <<config, fields, world, output, wenv, ep, score, steps, tsRead,
                   closeIdx, outcome, agentActive, buf, history>>

\* StepRead with `score = reward` in place of `score += reward` in line 114
StepRead_ScoreOverwritten(w, r) ==
    /\ pc[w] = "step"
    /\ steps[w] < (IF episodeLen = None THEN MaxSteps ELSE episodeLen)
    /\ score' = [score EXCEPT ![w] = r]
    /\ steps' = [steps EXCEPT ![w] = @ + 1]
    /\ buf' = [buf EXCEPT ![w] = IF Recording THEN ExperienceAppend(@) ELSE @]
    /\ tsRead' = [tsRead EXCEPT ![w] = timestep]
    /\ pc' = [pc EXCEPT ![w] = "inc"]
    /\ UNCHANGED <<config, fields, world, output, wenv, ep, closeIdx, outcome, vflag,
                   agentActive, history>>

\* lines 108-116, up to the read of self._timestep in `self._timestep += 1`
StepRead(w, r) ==
    /\ pc[w] = "step"
    /\ steps[w] < (IF episodeLen = None THEN MaxSteps ELSE episodeLen)
    /\ score' = [score EXCEPT ![w] = @ + r]
    /\ steps' = [steps EXCEPT ![w] = @ + 1]
    /\ buf' = [buf EXCEPT ![w] = IF Recording THEN ExperienceAppend(@) ELSE @]
    /\ tsRead' = [tsRead EXCEPT ![w] = timestep]
    /\ pc' = [pc EXCEPT ![w] = "inc"]
    /\ UNCHANGED <<config, fields, world, output, wenv, ep, closeIdx, outcome, vflag,
                   agentActive, history>>

\* line 116: the write of `self._timestep += 1`
StepWrite(w) ==
    /\ pc[w] = "inc"
    /\ timestep' = tsRead[w] + 1
    /\ tsRead' = [tsRead EXCEPT ![w] = 0]
    /\ pc' = [pc EXCEPT ![w] = "step"]
    /\ UNCHANGED <<config, envs, preprocesses, scores, epoch, episode, running, lock,
                   world, output, wenv, ep, score, steps, closeIdx, outcome,
                   vflag, agentActive, buf,
                   history>>

\* StopEpisode that returns inside the with of line 90 without releasing the
\* environment's lock
StopEpisode_KeepsEnvLock(w) ==
    /\ pc[w] = "step"
    /\ episodeLen = None \/ steps[w] = episodeLen
    /\ agentActive' = [agentActive EXCEPT ![w] = FALSE]
    /\ saved' = IF Recording THEN saved \cup {<<ep[w], buf[w].len>>} ELSE saved
    /\ buf' = [buf EXCEPT ![w] = NoBuffer]
    /\ vflag' = [vflag EXCEPT ![w] = FALSE]
    /\ pc' = [pc EXCEPT ![w] = "append"]
    /\ UNCHANGED <<config, fields, world, reports, persisted, stores,
                   addResult, wenv, ep, score, steps, tsRead, closeIdx, outcome,
                   history>>

\* lines 117-123 and the end of line 90's with: StopEpisode is caught,
\* agent.stop(), the experience is saved under the episode's id when
\* recording, the score is returned and the environment's lock released
StopEpisode(w) ==
    /\ pc[w] = "step"
    /\ episodeLen = None \/ steps[w] = episodeLen
    /\ agentActive' = [agentActive EXCEPT ![w] = FALSE]
    /\ saved' = IF Recording THEN saved \cup {<<ep[w], buf[w].len>>} ELSE saved
    /\ buf' = [buf EXCEPT ![w] = NoBuffer]
    /\ envLock' = [envLock EXCEPT ![wenv[w]] = NoThread]
    /\ vflag' = [vflag EXCEPT ![w] = FALSE]
    /\ pc' = [pc EXCEPT ![w] = "append"]
    /\ UNCHANGED <<config, fields, created, closed, reports, persisted, stores,
                   addResult, wenv, ep, score, steps, tsRead, closeIdx, outcome,
                   history>>

\* Fail with an `except Exception: pass` in line 117: the error ends the step
\* loop like StopEpisode and the call goes on to append a score
Fail_Swallowed(w) ==
    /\ pc[w] \in {"reset", "step"}
    /\ envLock' = [envLock EXCEPT ![wenv[w]] = NoThread]
    /\ buf' = [buf EXCEPT ![w] = NoBuffer]
    /\ vflag' = [vflag EXCEPT ![w] = FALSE]
    /\ agentActive' = [agentActive EXCEPT ![w] = FALSE]
    /\ outcome' = [outcome EXCEPT ![w] = "error"]
    /\ pc' = [pc EXCEPT ![w] = "append"]
    /\ errors' = errors + 1
    /\ UNCHANGED <<config, fields, created, closed, output, wenv, ep, score, steps,
                   tsRead, closeIdx, allocated, stepSum, regionDone, stops>>

\* lines 106-111 with no handler in lines 90-91 and 104-119: env.reset(),
\* agent.step(), env.step() or agent.experience() raises something other than
\* StopEpisode; the exception leaves _run_episode past agent.stop() and the
\* save, the with of line 90 releases the environment's lock, and it leaves
\* run_episode to the caller
Fail(w) ==
    /\ pc[w] \in {"reset", "step"}
    /\ envLock' = [envLock EXCEPT ![wenv[w]] = NoThread]
    /\ buf' = [buf EXCEPT ![w] = NoBuffer]
    /\ vflag' = [vflag EXCEPT ![w] = FALSE]
    /\ ep' = [ep EXCEPT ![w] = 0]
    /\ score' = [score EXCEPT ![w] = 0]
    /\ steps' = [steps EXCEPT ![w] = 0]
    /\ outcome' = [outcome EXCEPT ![w] = "error"]
    /\ pc' = [pc EXCEPT ![w] = "idle"]
    /\ stepSum' = stepSum + steps[w]
    /\ errors' = errors + 1
    /\ UNCHANGED <<config, fields, created, closed, output, wenv, tsRead, closeIdx,
                   agentActive, allocated, regionDone, stops>>

\* line 92: self._scores.append(score), under no lock
AppendScore(w) ==
    /\ pc[w] = "append"
    /\ scores' = Append(scores, score[w])
    /\ pc' = [pc EXCEPT ![w] = "lock2"]
    /\ UNCHANGED <<config, envs, preprocesses, epoch, episode, timestep, running, lock,
                   world, output, wenv, ep, score, steps, tsRead, closeIdx, outcome,
                   vflag, agentActive, buf, history>>

\* lines 125-130: _next_epoch; the report is the epoch id and the sum and the
\* length of the averaged window of scores
NextEpoch ==
    /\ epoch' = epoch + 1
    /\ LET window == LastN(scores, epoch_size)
       IN reports' = Append(reports, [epoch |-> epoch + 1,
                                      total |-> SumSeq(window),
                                      count |-> Len(window)])

\* EpochCheck with epoch_end = self._epoch * self._epoch_size in line 94
EpochCheck_OffByOne(w) ==
    /\ pc[w] = "lock2"
    /\ lock = NoThread
    /\ lock' = w
    /\ IF running /\ timestep >= epoch * epoch_size
       THEN NextEpoch
       ELSE UNCHANGED <<epoch, reports>>
    /\ pc' = [pc EXCEPT ![w] = "stopcheck"]
    /\ UNCHANGED <<config, envs, preprocesses, scores, episode, timestep, running,
                   world, persisted, stores, addResult, saved, wenv, ep, score, steps,
                   tsRead,
                   closeIdx, outcome, vflag, agentActive, buf, history>>

\* EpochCheck without the test of self._running in line 95
EpochCheck_NoRunningTest(w) ==
    /\ pc[w] = "lock2"
    /\ lock = NoThread
    /\ lock' = w
    /\ IF timestep >= (epoch + 1) * epoch_size
       THEN NextEpoch
       ELSE UNCHANGED <<epoch, reports>>
    /\ pc' = [pc EXCEPT ![w] = "stopcheck"]
    /\ UNCHANGED <<config, envs, preprocesses, scores, episode, timestep, running,
                   world, persisted, stores, addResult, saved, wenv, ep, score, steps,
                   tsRead,
                   closeIdx, outcome, vflag, agentActive, buf, history>>

\* lines 93-96: with self._lock, and the epoch check
EpochCheck(w) ==
    /\ pc[w] = "lock2"
    /\ lock = NoThread
    /\ lock' = w
    /\ IF running /\ timestep >= (epoch + 1) * epoch_size
       THEN NextEpoch
       ELSE UNCHANGED <<epoch, reports>>
    /\ pc' = [pc EXCEPT ![w] = "stopcheck"]
    /\ UNCHANGED <<config, envs, preprocesses, scores, episode, timestep, running,
                   world, persisted, stores, addResult, saved, wenv, ep, score, steps,
                   tsRead,
                   closeIdx, outcome, vflag, agentActive, buf, history>>

\* the return of run_episode: the session lock is released and the frame's
\* locals are gone
Return(w) ==
    /\ lock' = NoThread
    /\ pc' = [pc EXCEPT ![w] = "idle"]
    /\ outcome' = [outcome EXCEPT ![w] = "returned"]
    /\ ep' = [ep EXCEPT ![w] = 0]
    /\ score' = [score EXCEPT ![w] = 0]
    /\ steps' = [steps EXCEPT ![w] = 0]
    /\ closeIdx' = [closeIdx EXCEPT ![w] = 0]
    /\ stepSum' = stepSum + steps[w]
    /\ regionDone' = regionDone + 1

\* lines 97-98 and 133: when the budget is used up, _stop_training starts and
\* sets _running to False; otherwise the call returns
StopCheck(w) ==
    /\ pc[w] = "stopcheck"
    /\ IF timestep >= timesteps
       THEN /\ running' = FALSE
            /\ stops' = stops + 1
            /\ closeIdx' = [closeIdx EXCEPT ![w] = 1]
            /\ pc' = [pc EXCEPT ![w] = "closing"]
            /\ UNCHANGED <<lock, outcome, ep, score, steps, stepSum, regionDone>>
       ELSE /\ Return(w)
            /\ UNCHANGED <<running, stops>>
    /\ UNCHANGED <<config, envs, preprocesses, scores, epoch, episode, timestep,
                   world, output, wenv, tsRead, vflag, agentActive, buf, allocated,
                   errors>>

\* CloseAcquire without the `with env.lock` of line 135
CloseAcquire_NoLock(w) ==
    /\ pc[w] = "closing"
    /\ closeIdx[w] <= Len(envs)
    /\ pc' = [pc EXCEPT ![w] = "close"]
    /\ UNCHANGED <<config, fields, world, output, wenv, ep, score, steps,
                   tsRead, closeIdx, outcome, vflag, agentActive, buf, history>>

\* lines 134-135: for env in self._envs: with env.lock
CloseAcquire(w) ==
    /\ pc[w] = "closing"
    /\ closeIdx[w] <= Len(envs)
    /\ envLock[envs[closeIdx[w]]] = NoThread
    /\ envLock' = [envLock EXCEPT ![envs[closeIdx[w]]] = w]
    /\ pc' = [pc EXCEPT ![w] = "close"]
    /\ UNCHANGED <<config, fields, created, closed, output, wenv, ep, score, steps,
                   tsRead, closeIdx, outcome, vflag, agentActive, buf, history>>

\* line 136: env.close(), and the lock of that environment is released
CloseEnv(w) ==
    /\ pc[w] = "close"
    /\ closed' = [closed EXCEPT ![envs[closeIdx[w]]] = @ + 1]
    /\ envLock' = [envLock EXCEPT ![envs[closeIdx[w]]] = NoThread]
    /\ closeIdx' = [closeIdx EXCEPT ![w] = @ + 1]
    /\ pc' = [pc EXCEPT ![w] = "closing"]
    /\ UNCHANGED <<config, fields, created, output, wenv, ep, score, steps, tsRead,
                   outcome, vflag, agentActive, buf, history>>

\* lines 137-142, then the return of run_episode
StoreScores(w) ==
    /\ pc[w] = "closing"
    /\ closeIdx[w] > Len(envs)
    /\ IF directory
       THEN /\ persisted' = scores
            /\ stores' = stores + 1
       ELSE UNCHANGED <<persisted, stores>>
    /\ Return(w)
    /\ UNCHANGED <<config, envs, preprocesses, scores, epoch, episode, timestep,
                   running, world, reports, addResult, saved, wenv, tsRead, vflag,
                   agentActive, buf, allocated,
                   stops, errors>>

\* ---------------------------------------------------------------- Next
Next ==
    \/ \E i \in DOMAIN PreprocessArgs : AddPreprocess(PreprocessArgs[i])
    \/ \E w \in Workers : CreateEnv(w)
    \/ \E w \in Workers : RunEpisodeCheck(w)
    \/ \E w \in Workers : AllocEpisode(w)
    \/ \E w \in Workers : StartEpisode(w)
    \/ \E w \in Workers : EnvReset(w)
    \/ \E w \in Workers, r \in Rewards : StepRead(w, r)
    \/ \E w \in Workers : StepWrite(w)
    \/ \E w \in Workers : StopEpisode(w)
    \/ \E w \in Workers : AppendScore(w)
    \/ \E w \in Workers : EpochCheck(w)
    \/ \E w \in Workers : StopCheck(w)
    \/ \E w \in Workers : CloseAcquire(w)
    \/ \E w \in Workers : CloseEnv(w)
    \/ \E w \in Workers : StoreScores(w)

Spec == Init /\ [][Next]_vars

\* the same threads with an agent or an environment that may raise an error
NextErrors ==
    \/ Next
    \/ \E w \in Workers : Fail(w)

SpecErrors == Init /\ [][NextErrors]_vars

\* ------------------------------------------------------------ the scenario
\* two threads, each on its own environment with one preprocess, episodes of
\* fixed length with reward 1 per step
InitScenario ==
    Setup(ScenarioConfig, <<PreprocessArgs[1]>>,
          ScenarioConfig.episode_len, ScenarioConfig.episodes)

NextScenario ==
    \/ \E w \in Workers : CreateEnv(w)
    \/ \E w \in Workers : RunEpisodeCheck(w)
    \/ \E w \in Workers : AllocEpisode(w)
    \/ \E w \in Workers : StartEpisode(w)
    \/ \E w \in Workers : EnvReset(w)
    \/ \E w \in Workers : StepRead(w, 1)
    \/ \E w \in Workers : StepWrite(w)
    \/ \E w \in Workers : StopEpisode(w)
    \/ \E w \in Workers : AppendScore(w)
    \/ \E w \in Workers : EpochCheck(w)
    \/ \E w \in Workers : StopCheck(w)
    \/ \E w \in Workers : CloseAcquire(w)
    \/ \E w \in Workers : CloseEnv(w)
    \/ \E w \in Workers : StoreScores(w)

SpecScenario == InitScenario /\ [][NextScenario]_vars

\* ------------------------------------------------------------ scheduling
\* the steps of a run_episode call that has passed the running check, the
\* raising of an error left out: a thread that can take its next step is scheduled in the end,
\* and every episode ends (the environment signals the end after MaxSteps
\* steps at the latest)
CallStep(w) ==
    \/ AllocEpisode(w)
    \/ StartEpisode(w)
    \/ EnvReset(w)
    \/ \E r \in Rewards : StepRead(w, r)
    \/ StepWrite(w)
    \/ StopEpisode(w)
    \/ AppendScore(w)
    \/ EpochCheck(w)
    \/ StopCheck(w)
    \/ CloseAcquire(w)
    \/ CloseEnv(w)
    \/ StoreScores(w)

FairSpec == SpecErrors /\ \A w \in Workers : WF_vars(CallStep(w))

\* ------------------------------------------------------------ the claims
InCall(w) == pc[w] \notin {"new", "idle"}
\* inside _run_episode, after env.reset()
Stepping(w) == pc[w] \in {"step", "inc"}
InStopTraining(w) == pc[w] \in {"closing", "close"}
Occurrences(s, x) == Cardinality({i \in DOMAIN s : s[i] = x})

\* C1: in every interleaving the shutdown path (_stop_training) is executed
\* at most once per Trainer, so _running is written to False once and the
\* score record is written once.
C1_StopTrainingAtMostOnce == stops <= 1 /\ stores <= 1

\* C2: when every run_episode call has completed, the timestep counter equals
\* the sum of the step counts of the completed episodes.
C2_TimestepIsSumOfSteps ==
    (\A w \in Workers : ~InCall(w)) => timestep = stepSum

\* C3: once _running is False no worker allocates an episode id, calls
\* agent.start or calls env.reset, whatever it read before the transition.
C3_NoEpisodeStartsAfterStop ==
    [][~running =>
        /\ episode' = episode
        /\ \A w \in Workers :
              /\ ~(pc[w] = "envlock" /\ pc'[w] = "reset")
              /\ ~(pc[w] = "reset" /\ pc'[w] = "step")]_vars

\* C4: every environment instance returned by create_env is in the registry
\* exactly once, is never closed twice, and has been closed exactly once when
\* a shutdown has run to its end.
C4_RegisteredAndClosedOnce ==
    \A w \in Workers :
        pc[w] # "new" =>
            /\ Occurrences(envs, wenv[w]) = 1
            /\ closed[wenv[w]] <= 1
            /\ (stops > 0 /\ \A v \in Workers : ~InStopTraining(v))
                   => closed[wenv[w]] = 1

\* C5: the k-th allocation of an episode id, in the order in which threads
\* pass through the session lock, receives id k-1, and no two calls in
\* progress hold the same id.
HoldsId(w) == pc[w] \notin {"new", "idle", "alloc"}
C5_EpisodeIdsInOrder ==
    /\ \A k \in DOMAIN allocated : allocated[k] = k - 1
    /\ \A v, w \in Workers : (v # w /\ HoldsId(v) /\ HoldsId(w)) => ep[v] # ep[w]

\* two calls in progress at the same time, each with an allocated id
C5_Witness == Len(allocated) = 2 /\ \A w \in Workers : HoldsId(w)

\* C6: a run_episode call that sees _running False ends with StopTraining
\* and changes nothing else (no lock, no episode id, no counter, no score,
\* no agent or environment operation); _running never becomes True again, so
\* every call made after it is False ends this way.
C6_StopTrainingHasNoEffect ==
    [][~running =>
        /\ ~running'
        /\ \A w \in Workers :
              pc[w] = "idle" =>
                /\ pc'[w] = "idle"
                /\ outcome'[w] \in {outcome[w], "StopTraining"}
                /\ outcome'[w] # outcome[w] =>
                      /\ UNCHANGED <<config, fields, world, output, history>>
                      /\ UNCHANGED <<wenv, ep, score, steps, tsRead, closeIdx, vflag, agentActive, buf>>
                      /\ \A v \in Workers \ {w} : outcome'[v] = outcome[v]]_vars

\* a call made after the shutdown has ended with StopTraining
C6_Witness ==
    ~running /\ \E w \in Workers : pc[w] = "idle" /\ outcome[w] = "StopTraining"

\* C7: the score is appended inside the session-lock region of its call, so
\* the length of scores is at every moment the number of run_episode calls
\* that have completed that region (plus the call that is inside it).
InRegion(w) == pc[w] \in {"stopcheck", "closing", "close"}
C7_ScoresLengthIsCompletedRegions ==
    Len(scores) = regionDone + Cardinality({w \in Workers : InRegion(w)})

\* C8: no two invocations of _next_epoch produce the same epoch id, and every
\* invocation is made by the holder of the session lock with
\* timestep >= (new epoch id) * epoch_size at its check.
C8_EpochReportedOnce ==
    /\ [](\A i, j \in DOMAIN reports : i # j => reports[i].epoch # reports[j].epoch)
    /\ [][(epoch' # epoch \/ reports' # reports) =>
            /\ epoch' = epoch + 1
            /\ reports' = Append(reports, reports'[Len(reports')])
            /\ reports'[Len(reports')].epoch = epoch'
            /\ lock' \in Workers
            /\ pc[lock'] = "lock2" /\ pc'[lock'] = "stopcheck"
            /\ timestep >= epoch' * epoch_size]_vars

\* two epochs have been reported with epoch_size 1
C8_Witness == Len(reports) = 2 /\ epoch_size = 1 /\ epoch = 2

\* C9: once a create_env call has returned, add_preprocess fails with the
\* RuntimeError and leaves the list of preprocesses as it is, whatever the
\* number of preprocesses registered before.
C9_AddPreprocessFailsAfterCreateEnv ==
    [][created > 0 =>
        /\ preprocesses' = preprocesses
        /\ addResult' \in {addResult, "RuntimeError"}]_vars

\* C10: the video flag an episode gets is decided by its allocated id: with
\* videos = 3 the ids k with k % 3 = 0 are flagged and no others, with
\* videos = 0 none is.
C10_VideoFlagFollowsAllocatedId ==
    \A w \in Workers :
        Stepping(w) => (vflag[w] <=> (videos # 0 /\ ep[w] % videos = 0))

\* ---------------------------------------------------------------- C11
\* C11: in the scenario (in tenths: timesteps 10, epochs of 5, two threads,
\* episodes of 3 steps with reward 1), running goes to false exactly once, in
\* the check that follows the 4th completed episode: never twice, never with
\* fewer than four scores appended, then timestep is 12 (for 120) and scores
\* is four times 3 (for 30), and once the four episodes are over and every
\* call has returned it has happened
C11_ScenarioStopsOnceAfterFourth ==
    /\ stops <= 1
    /\ stops = 1 =>
          /\ timestep = ScenarioConfig.episodes * ScenarioConfig.episode_len
          /\ scores = [i \in 1..ScenarioConfig.episodes |-> ScenarioConfig.episode_len]
    /\ (regionDone = ScenarioConfig.episodes /\ \A w \in Workers : ~InCall(w))
          => stops = 1

BeforeAppend(w) == pc[w] \in {"envlock", "reset", "step", "inc", "append"}
AwaitingCheck(w) == pc[w] = "lock2"

\* C13: the end-of-episode signal ends the step loop inside run_episode:
\* agent.stop follows agent.start, the score is the sum of the rewards of the
\* completed steps (1 each), the call goes on to append the score, and every
\* appended score has had, is in, or is waiting for its epoch/stop check
C13_EndOfEpisodeHandled ==
    /\ [][\A w \in Workers :
            (pc[w] = "step" /\ pc'[w] \notin {"step", "inc"} /\ outcome'[w] # "error")
                => /\ pc'[w] = "append"
                   /\ agentActive[w] /\ ~agentActive'[w]
                   /\ score'[w] = SumSeq([i \in 1..steps[w] |-> 1])
                   /\ outcome'[w] = outcome[w]]_vars
    /\ [][\A w \in Workers :
            pc[w] = "append" /\ pc'[w] # "append"
                => pc'[w] = "lock2" /\ scores' = Append(scores, score[w])]_vars
    /\ [](Len(scores) = regionDone
                        + Cardinality({w \in Workers : InRegion(w)})
                        + Cardinality({w \in Workers : AwaitingCheck(w)}))

\* an episode of two steps has ended: the agent is stopped, the score is 2
C13_Witness ==
    \E w \in Workers :
        pc[w] = "append" /\ steps[w] = 2 /\ score[w] = 2 /\ ~agentActive[w]

\* ---------------------------------------------------------------- C14
\* C14: an error of the agent or the environment leaves run_episode at once:
\* the step that raises it ends the call with no score appended, no epoch
\* or stop check, the session untouched and the environment's lock released,
\* and every allocated episode has either failed, or been appended, or is
\* still running
C14_ErrorPropagates ==
    /\ [][\A w \in Workers :
            (InCall(w) /\ outcome'[w] = "error")
                => /\ pc'[w] = "idle"
                   /\ envLock'[wenv[w]] = NoThread
                   /\ UNCHANGED <<scores, epoch, reports, running, lock, timestep,
                                  closed, persisted, regionDone, stops>>]_vars
    /\ [](Len(allocated) = errors + Len(scores)
                           + Cardinality({w \in Workers : BeforeAppend(w)}))

\* a call has failed after a completed step: its agent was never stopped and
\* no score stands for its episode
C14_Witness ==
    \E w \in Workers :
        /\ outcome[w] = "error" /\ pc[w] = "idle" /\ agentActive[w]
        /\ errors = 1 /\ timestep > 0 /\ Len(allocated) = 1 /\ scores = <<>>

\* ---------------------------------------------------------------- C15
\* C15: env.close() of a registered instance is never in progress while a
\* thread is between env.reset() and the end of its step loop on that instance
C15_CloseExcludesEpisode ==
    \A w \in Workers, v \in Workers :
        pc[w] = "close" => ~(Stepping(v) /\ wenv[v] = envs[closeIdx[w]])

\* the shutdown path is waiting for the instance another thread is stepping on
C15_Witness ==
    \E w \in Workers, v \in Workers :
        /\ pc[w] = "closing" /\ closeIdx[w] <= Len(envs)
        /\ Stepping(v) /\ wenv[v] = envs[closeIdx[w]]

\* ---------------------------------------------------------------- C16
\* C16: no env.reset() or env.step() is called on an instance after close()
\* was called on it: a thread in its step loop is on an instance not closed
C16_NoUseAfterClose ==
    \A w \in Workers : Stepping(w) => closed[wenv[w]] = 0

\* ---------------------------------------------------------------- C17
\* C17: no thread waits for the session lock while it holds an environment's
\* lock, every run_episode call returns in the end, and a shutdown that has
\* started finishes
C17_NoDeadlock ==
    /\ [](\A w \in Workers :
            pc[w] \in {"alloc", "lock2"} => \A e \in EnvIds : envLock[e] # w)
    /\ \A w \in Workers : InCall(w) ~> ~InCall(w)
    /\ \A w \in Workers : InStopTraining(w) ~> (pc[w] = "idle" /\ ~running)

\* the shutdown path holds the session lock and waits for an environment's
\* lock, which another thread holds
C17_Witness ==
    \E w \in Workers, v \in Workers :
        /\ v # w /\ lock = w /\ pc[w] = "closing" /\ closeIdx[w] <= Len(envs)
        /\ envLock[envs[closeIdx[w]]] = v

\* ---------------------------------------------------------------- C18
\* C18: once the shutdown path has persisted the scores, scores is not
\* modified again: the persisted record is the value of scores
C18_PersistedIsScores == stores > 0 => persisted = scores

\* ---------------------------------------------------------------- C19
\* C19: after running has become false no epoch report is emitted and the
\* epoch counter is not incremented
C19_NoEpochAfterStop ==
    [][~running => epoch' = epoch /\ reports' = reports]_vars

\* after the shutdown a call is past its epoch check with the timestep
\* counter across the next epoch boundary, every other call having returned
C19_Witness ==
    \E w \in Workers :
        /\ ~running /\ pc[w] = "stopcheck"
        /\ timestep >= (epoch + 1) * epoch_size
        /\ \A v \in Workers \ {w} : pc[v] = "idle" /\ outcome[v] = "returned"

====
